---- MODULE Spec2Model ----
(***************************************************************************)
(* Model of the claims-aging ETL engine                                    *)
(* (src/exclusive_report_with_aging_final.py).  One run of main() is a     *)
(* state machine: the program counter pc walks through the statements of   *)
(* main, df is the in-memory table, dest is the destination workbook on    *)
(* disk.  Amounts are integers (whole currency units); the code computes   *)
(* with floats.  Bucket labels are written with an ASCII hyphen.           *)
(***************************************************************************)
EXTENDS Integers, Sequences, FiniteSets, TLC

VARIABLES pc, source, df, balance_df, pivot_summary, insurance_totals,
          book, dest, error

vars == <<pc, source, df, balance_df, pivot_summary, insurance_totals,
          book, dest, error>>

----------------------------------------------------------------------------
(* Bounds of the model.                                                    *)
MaxMeasureRows == 1
MaxAgingRows == 2
MaxAggRows == 2
MaxPayerRows == 1
MaxNumericRows == 1

----------------------------------------------------------------------------
(* Cells and missing values.                                               *)

\* A raw spreadsheet cell: a number (or a date, as a day number), a text, or blank.
Num(n) == [k |-> "num", n |-> n, s |-> ""]
Text(s) == [k |-> "text", n |-> 0, s |-> s]
Blank == [k |-> "blank", n |-> 0, s |-> ""]

\* NaN / NaT of a numeric or date column: the empty tuple; a value v is <<v>>.
NaN == <<>>
Some(v) == <<v>>
IsNull(o) == o = <<>>

\* None / NaN in a column of strings.
NULL == "<null>"

RECURSIVE SumSeq(_)
SumSeq(s) == IF s = <<>> THEN 0 ELSE Head(s) + SumSeq(Tail(s))

\* df[c] = v on one row: adds the column or overwrites it.
SetCol(r, c, v) == [x \in (DOMAIN r) \cup {c} |-> IF x = c THEN v ELSE r[x]]

NoTable == [columns |-> {}, rows |-> <<>>]

----------------------------------------------------------------------------
(* load_data                                                               *)

\* str.strip on a column name.
Strip(name) ==
    CASE name = " Insurance" -> "Insurance"
      [] name = "PayerName " -> "PayerName"
      [] name = " Plan "     -> "Plan"
      [] OTHER               -> name

StripRow(r) ==
    [c \in {Strip(x) : x \in DOMAIN r} |->
        r[CHOOSE x \in DOMAIN r : Strip(x) = c]]

load_data(src) ==
    [columns |-> {Strip(c) : c \in src.columns},
     rows    |-> [i \in 1..Len(src.rows) |-> StripRow(src.rows[i])]]

----------------------------------------------------------------------------
(* ensure_numeric                                                          *)

RemitCols == <<"actRemitInsShare", "actResub1RemitInsShare",
               "actResub2RemitInsShare", "actResub3RemitInsShare",
               "TKBKAmountAct">>

num_cols == <<"ActivityIns">> \o RemitCols

\* The numbers the text cells of the model parse to.
ParseNumber(s) ==
    CASE s = "7"  -> Some(7)
      [] s = "-2" -> Some(0 - 2)
      [] OTHER    -> NaN

\* pd.to_numeric(errors="coerce") on one cell.
to_numeric(cell) ==
    CASE cell.k = "num"  -> Some(cell.n)
      [] cell.k = "text" -> ParseNumber(cell.s)
      [] OTHER           -> NaN

fillna0(o) == IF IsNull(o) THEN 0 ELSE o[1]

EnsureNumericCell(r, c) ==
    IF c \in DOMAIN r THEN fillna0(to_numeric(r[c])) ELSE 0

EnsureNumericRow(r) ==
    LET cs == {num_cols[i] : i \in 1..Len(num_cols)}
    IN  [c \in (DOMAIN r) \cup cs |->
            IF c \in cs THEN EnsureNumericCell(r, c) ELSE r[c]]

ensure_numeric(t) ==
    [columns |-> t.columns \cup {num_cols[i] : i \in 1..Len(num_cols)},
     rows    |-> [i \in 1..Len(t.rows) |-> EnsureNumericRow(t.rows[i])]]

----------------------------------------------------------------------------
(* compute_measures                                                        *)

\* Mutant: the status is compared as written, case and all.
Lower_identity(s) == s

\* str.lower on the status texts of the model.
Lower(s) ==
    CASE s = "Rejected" -> "rejected"
      [] s = "REJECTED" -> "rejected"
      [] s = "Pending"  -> "pending"
      [] OTHER          -> s

\* astype(str) on a cell of a string column: a missing value becomes "nan".
AsStr(v) == IF v = NULL THEN "nan" ELSE v

notna(v) == v # NULL

PaidOf(r) == SumSeq([i \in 1..Len(RemitCols) |-> r[RemitCols[i]]])

HasClassification(columns) ==
    "ActivityStatus" \in columns /\ "DenialCode" \in columns

\* Mutant: every row with a non-zero Paid counts as paid.
mask_paid_nonzero(r) == r["Paid"] # 0

mask_paid(r) == r["Paid"] > 0

mask_reject(r) ==
    /\ r["Paid"] = 0
    /\ Lower(AsStr(r["ActivityStatus"])) = "rejected"
    /\ notna(r["DenialCode"])

\* Mutant: the balance mask forgets to exclude the rejected rows.
mask_balance_overlapping(r) == r["Paid"] = 0

mask_balance(r) == r["Paid"] = 0 /\ ~mask_reject(r)

\* Mutant: the paid branch runs outside the check for the two columns.
MeasureRow_unguarded_paid(r0, classify) ==
    LET r1 == SetCol(r0, "Paid", SumSeq([i \in 1..Len(RemitCols) |-> r0[RemitCols[i]]]))
        r2 == SetCol(SetCol(SetCol(r1, "Rejection", 0), "Accepted", 0), "Balance", 0)
        a  == IF mask_paid(r2)
              THEN SetCol(r2, "Accepted", r2["ActivityIns"] - r2["Paid"]) ELSE r2
        b  == IF classify /\ mask_reject(r2)
              THEN SetCol(a, "Rejection", r2["ActivityIns"]) ELSE a
        c  == IF classify /\ mask_balance(r2)
              THEN SetCol(b, "Balance", r2["ActivityIns"]) ELSE b
    IN  c

MeasureRow(r0, classify) ==
    LET r1 == SetCol(r0, "Paid", PaidOf(r0))
        r2 == SetCol(SetCol(SetCol(r1, "Rejection", 0), "Accepted", 0), "Balance", 0)
        a  == IF classify /\ mask_paid(r2)
              THEN SetCol(r2, "Accepted", r2["ActivityIns"] - r2["Paid"]) ELSE r2
        b  == IF classify /\ mask_reject(r2)
              THEN SetCol(a, "Rejection", r2["ActivityIns"]) ELSE a
        c  == IF classify /\ mask_balance(r2)
              THEN SetCol(b, "Balance", r2["ActivityIns"]) ELSE b
    IN  c

compute_measures(t) ==
    [columns |-> t.columns \cup {"Paid", "Rejection", "Accepted", "Balance"},
     rows    |-> [i \in 1..Len(t.rows) |->
                     MeasureRow(t.rows[i], HasClassification(t.columns))]]

----------------------------------------------------------------------------
(* add_aging                                                               *)

\* Dates are day numbers of the current year; today is day 100 (10 April).
Today == 100

date_cols == <<"SubmissionDate", "ClaimDate", "VisitDate">>

\* The dates the text cells of the model parse to, day first:
\* "09/04" is 9 April (day 99), not 4 September (day 247).
ParseDate(s) ==
    CASE s = "09/04" -> Some(99)
      [] s = "01/03" -> Some(60)
      [] OTHER       -> NaN

\* pd.to_datetime(errors="coerce", dayfirst=True) on one cell.
to_datetime(cell) ==
    CASE cell.k = "num"  -> Some(cell.n)
      [] cell.k = "text" -> ParseDate(cell.s)
      [] OTHER           -> NaN

date_candidates(columns) == SelectSeq(date_cols, LAMBDA c : c \in columns)

\* df[date_candidates].bfill(axis=1).iloc[:, 0]: the first non-null date.
RECURSIVE FirstNonNull(_, _)
FirstNonNull(r, cs) ==
    IF cs = <<>> THEN NaN
    ELSE IF ~IsNull(r[Head(cs)]) THEN r[Head(cs)]
         ELSE FirstNonNull(r, Tail(cs))

DaysDiffOf(today, ref) == IF IsNull(ref) THEN NaN ELSE Some(today - ref[1])

\* Mutant: the first bin starts at 0 instead of -1.
bins_from_zero == <<0, 30, 45, 60, 90>>

bins == <<0 - 1, 30, 45, 60, 90>>

labels == <<"0-30 Days", "31-45 Days", "46-60 Days", "61-90 Days", ">90 Days">>

\* Mutant: left-closed intervals [bins[i], bins[i+1]), as with right=False.
InBin_left_closed(d, i) == bins[i] <= d /\ (i = Len(bins) \/ d < bins[i + 1])

\* Whether d lies in the i-th interval (bins[i], bins[i+1]], the last one
\* being (bins[5], inf).
InBin(d, i) == bins[i] < d /\ (i = Len(bins) \/ d <= bins[i + 1])

\* pd.cut(DaysDiff, bins, labels): right-closed intervals, NaN outside them.
cut(dd) ==
    IF IsNull(dd) THEN NULL
    ELSE IF \E i \in 1..Len(bins) : InBin(dd[1], i)
         THEN labels[CHOOSE i \in 1..Len(bins) : InBin(dd[1], i)]
         ELSE NULL

AgingRow(r0, columns, today) ==
    LET cs == date_candidates(columns)
        r1 == [c \in DOMAIN r0 |->
                 IF \E i \in 1..Len(cs) : cs[i] = c THEN to_datetime(r0[c]) ELSE r0[c]]
        r2 == SetCol(r1, "RefDate", FirstNonNull(r1, cs))
        r3 == SetCol(r2, "DaysDiff", DaysDiffOf(today, r2["RefDate"]))
    IN  SetCol(r3, "AgingBucket", cut(r3["DaysDiff"]))

add_aging(t, today) ==
    [columns |-> t.columns \cup {"RefDate", "DaysDiff", "AgingBucket"},
     rows    |-> [i \in 1..Len(t.rows) |-> AgingRow(t.rows[i], t.columns, today)]]

----------------------------------------------------------------------------
(* ensure_insurance_column                                                 *)

\* Mutant: PayerName is looked up before Insurance.
payer_cols_swapped == <<"PayerName", "Insurance", "Insurer", "Plan">>

payer_cols == <<"Insurance", "PayerName", "Insurer", "Plan">>

\* next((c for c in [...] if c in df.columns), "Insurance")
insurance_col(columns) ==
    LET present == SelectSeq(payer_cols, LAMBDA c : c \in columns)
    IN  IF present # <<>> THEN Head(present) ELSE "Insurance"

ensure_insurance_column(t) ==
    LET col == insurance_col(t.columns)
    IN  IF col \notin t.columns
        THEN [columns |-> t.columns \cup {"Insurance"},
              rows    |-> [i \in 1..Len(t.rows) |->
                              SetCol(t.rows[i], "Insurance", "Not Available")]]
        ELSE IF col # "Insurance"
        THEN [columns |-> t.columns \cup {"Insurance"},
              rows    |-> [i \in 1..Len(t.rows) |->
                              SetCol(t.rows[i], "Insurance", t.rows[i][col])]]
        ELSE t

----------------------------------------------------------------------------
(* Aggregation: build_balance_aging_summary, build_insurance_totals        *)

\* The sort order of the payer names of the model (groupby sorts its keys;
\* with dropna=False the missing payer comes last).
PayerOrder == <<"A", "B", "Not Available", NULL>>

SortedPayers(S) == SelectSeq(PayerOrder, LAMBDA p : p \in S)

LabelSet == {labels[i] : i \in 1..Len(labels)}

\* df.loc[df["Balance"] > 0]
RECURSIVE BalanceRows(_)
BalanceRows(rows) ==
    IF rows = <<>> THEN <<>>
    ELSE IF Head(rows)["Balance"] > 0
         THEN <<Head(rows)>> \o BalanceRows(Tail(rows))
         ELSE BalanceRows(Tail(rows))

balance_filter(t) == [columns |-> t.columns, rows |-> BalanceRows(t.rows)]

\* One cell of the pivot: the sum of Balance over the rows of payer p in
\* bucket l.  Rows with a missing payer or a missing bucket match no cell.
CellSum(rows, p, l) ==
    SumSeq([i \in 1..Len(rows) |->
              IF rows[i]["Insurance"] = p /\ rows[i]["AgingBucket"] = l
              THEN rows[i]["Balance"] ELSE 0])

PivotRow(rows, p) ==
    [c \in {"Insurance"} \cup LabelSet |->
        IF c = "Insurance" THEN p ELSE CellSum(rows, p, c)]

\* pivot_summary["Grand Total"] = pivot_summary.sum(axis=1)
WithRowTotal(r) ==
    SetCol(r, "Grand Total", SumSeq([i \in 1..Len(labels) |-> r[labels[i]]]))

\* Mutant: the Grand Total row is computed before the Grand Total column
\* exists, leaving its Grand Total cell at 0.
ColumnTotals_before_column(prows) ==
    [c \in {"Insurance", "Grand Total"} \cup LabelSet |->
        IF c = "Insurance" THEN "Grand Total"
        ELSE IF c = "Grand Total" THEN 0
        ELSE SumSeq([i \in 1..Len(prows) |-> prows[i][c]])]

\* pivot_summary.loc["Grand Total"] = pivot_summary.sum(axis=0)
ColumnTotals(prows) ==
    [c \in {"Insurance", "Grand Total"} \cup LabelSet |->
        IF c = "Insurance" THEN "Grand Total"
        ELSE SumSeq([i \in 1..Len(prows) |-> prows[i][c]])]

\* The payers with at least one row that has a bucket, and all payers of the
\* table, missing payer excluded (pivot_table drops missing keys).
BucketedPayers(rows) ==
    {rows[i]["Insurance"] : i \in {j \in 1..Len(rows) :
        rows[j]["Insurance"] # NULL /\ rows[j]["AgingBucket"] # NULL}}

KnownPayers(rows) ==
    {rows[i]["Insurance"] : i \in {j \in 1..Len(rows) : rows[j]["Insurance"] # NULL}}

\* The row index of the pivot.  With observed=False a payer whose rows all
\* lack a bucket is either left out or kept as a row of zeros, depending on
\* the pandas version: both are possible.
PivotIndexes(t) ==
    {SortedPayers(BucketedPayers(t.rows)), SortedPayers(KnownPayers(t.rows))}

build_balance_aging_summary(t, index) ==
    LET body == [i \in 1..Len(index) |-> WithRowTotal(PivotRow(t.rows, index[i]))]
    IN  Append(body, ColumnTotals(body))

GroupSum(rows, p, c) ==
    SumSeq([i \in 1..Len(rows) |-> IF rows[i]["Insurance"] = p THEN rows[i][c] ELSE 0])

TotalsRow(rows, p) ==
    [Insurance |-> p,
     NetAmount |-> GroupSum(rows, p, "ActivityIns"),
     Paid      |-> GroupSum(rows, p, "Paid"),
     Balance   |-> GroupSum(rows, p, "Balance"),
     Rejected  |-> GroupSum(rows, p, "Rejection"),
     Accepted  |-> GroupSum(rows, p, "Accepted")]

total_row(trows) ==
    [Insurance |-> "Grand Total",
     NetAmount |-> SumSeq([i \in 1..Len(trows) |-> trows[i].NetAmount]),
     Paid      |-> SumSeq([i \in 1..Len(trows) |-> trows[i].Paid]),
     Balance   |-> SumSeq([i \in 1..Len(trows) |-> trows[i].Balance]),
     Rejected  |-> SumSeq([i \in 1..Len(trows) |-> trows[i].Rejected]),
     Accepted  |-> SumSeq([i \in 1..Len(trows) |-> trows[i].Accepted])]

\* Mutant: groupby without dropna=False drops the rows of the missing payer.
build_insurance_totals_dropna(t) ==
    LET groups == SortedPayers({t.rows[i]["Insurance"] : i \in 1..Len(t.rows)} \ {NULL})
        body   == [i \in 1..Len(groups) |-> TotalsRow(t.rows, groups[i])]
    IN  Append(body, total_row(body))

build_insurance_totals(t) ==
    LET groups == SortedPayers({t.rows[i]["Insurance"] : i \in 1..Len(t.rows)})
        body   == [i \in 1..Len(groups) |-> TotalsRow(t.rows, groups[i])]
    IN  Append(body, total_row(body))

----------------------------------------------------------------------------
(* The destination workbook and the sheets written to it                   *)

WRITE_EXCLUSIVE_SHEET == FALSE

\* The sheets main writes, in order.
SheetOrder ==
    (IF WRITE_EXCLUSIVE_SHEET THEN <<"Exclusive_Report">> ELSE <<>>)
    \o <<"Insurance_Totals", "Balance_Aging_Summary", "Balance_Aging_Detail", "Meta">>

\* The destination path before the run: no file, or the report of an earlier run.
NoFile == [state |-> "absent", sheets |-> <<>>, styled |-> FALSE]
OldReport == [state |-> "old", sheets |-> SheetOrder, styled |-> TRUE]

\* The file as the run leaves it: opened for writing and not (or not
\* successfully) saved, or saved with the given sheets.
Truncated == [state |-> "new", sheets |-> <<>>, styled |-> FALSE]
Saved(sheets, styled) == [state |-> "new", sheets |-> sheets, styled |-> styled]

----------------------------------------------------------------------------
(* Source tables                                                           *)

\* All tables with the given columns and at most maxn rows drawn from rowset.
TablesOf(columns, rowset, maxn) ==
    {[columns |-> columns, rows |-> rs] :
        rs \in UNION {[1..n -> rowset] : n \in 0..maxn}}

\* The five received amounts of a row: none, paid and taken back, paid in
\* full (3), overpaid (5), taken back only.
RemitVectors ==
    {<<0, 0, 0, 0, 0>>, <<3, 0, 0, 0, 0 - 3>>, <<1, 0, 2, 0, 0>>,
     <<2, 1, 1, 1, 0>>, <<0, 0, 0, 0, 0 - 2>>}

Amounts == {0 - 2, 0, 3}

Statuses == {"Rejected", "Pending", NULL}

DenialCodes == {"D1", NULL}

AmountCells(ai, pv) ==
    [ActivityIns |-> Num(ai),
     actRemitInsShare |-> Num(pv[1]), actResub1RemitInsShare |-> Num(pv[2]),
     actResub2RemitInsShare |-> Num(pv[3]), actResub3RemitInsShare |-> Num(pv[4]),
     TKBKAmountAct |-> Num(pv[5])]

\* Rows whose amounts, status and denial code vary; the classification
\* columns are present or not.
MeasureSourceRows(hasStatus, hasDenial) ==
    {AmountCells(ai, pv)
       @@ (IF hasStatus THEN [ActivityStatus |-> st] ELSE <<>>)
       @@ (IF hasDenial THEN [DenialCode |-> dc] ELSE <<>>)
       @@ [Insurance |-> "A", SubmissionDate |-> Num(Today - 10)] :
       ai \in Amounts, pv \in RemitVectors,
       st \in (IF hasStatus THEN Statuses ELSE {NULL}),
       dc \in (IF hasDenial THEN DenialCodes ELSE {NULL})}

MeasureColumns(hasStatus, hasDenial) ==
    {num_cols[i] : i \in 1..Len(num_cols)} \cup {"Insurance", "SubmissionDate"}
       \cup (IF hasStatus THEN {"ActivityStatus"} ELSE {})
       \cup (IF hasDenial THEN {"DenialCode"} ELSE {})

MeasureTables ==
    UNION {TablesOf(MeasureColumns(hs, hd), MeasureSourceRows(hs, hd), MaxMeasureRows) :
             hs \in BOOLEAN, hd \in BOOLEAN}

\* Ages, in days before today, around every bucket edge.
Ages == {0 - 2, 0 - 1, 0, 1, 30, 31, 45, 46, 60, 61, 90, 91, 150}

SubmissionCells == {Num(Today - d) : d \in Ages} \cup {Blank, Text("n/a"), Text("09/04")}
FewSubmissionCells == {Blank, Text("n/a"), Num(Today - 30)}
ClaimCells == {Blank, Num(Today - 45)}
VisitCells == {Blank, Text("01/03")}

DateColumnSets ==
    {{}, {"SubmissionDate"}, {"SubmissionDate", "ClaimDate"},
     {"SubmissionDate", "ClaimDate", "VisitDate"}}

\* Rows with an outstanding balance of 3 whose dates vary; the remittance
\* columns are absent from the source.
AgingSourceRows(dcs) ==
    {[ActivityIns |-> Num(3), ActivityStatus |-> "Pending", DenialCode |-> NULL,
      Insurance |-> "A"]
       @@ (IF "SubmissionDate" \in dcs THEN [SubmissionDate |-> sd] ELSE <<>>)
       @@ (IF "ClaimDate" \in dcs THEN [ClaimDate |-> cd] ELSE <<>>)
       @@ (IF "VisitDate" \in dcs THEN [VisitDate |-> vd] ELSE <<>>) :
       sd \in (IF dcs = {"SubmissionDate"} THEN SubmissionCells
               ELSE IF "SubmissionDate" \in dcs THEN FewSubmissionCells ELSE {Blank}),
       cd \in (IF "ClaimDate" \in dcs THEN ClaimCells ELSE {Blank}),
       vd \in (IF "VisitDate" \in dcs THEN VisitCells ELSE {Blank})}

AgingTables ==
    UNION {TablesOf({"ActivityIns", "ActivityStatus", "DenialCode", "Insurance"} \cup dcs,
                    AgingSourceRows(dcs), MaxAgingRows) : dcs \in DateColumnSets}

\* Rows of three payers (one of them missing) in every disposition: balance
\* 3 aged 10 days, balance 3 without a date, balance 5 aged 100 days, paid 2
\* of 5, rejected 4.
AggKinds ==
    {[ai |-> 3, paid |-> 0, st |-> "Pending",  dc |-> NULL, sd |-> Num(Today - 10)],
     [ai |-> 3, paid |-> 0, st |-> "Pending",  dc |-> NULL, sd |-> Blank],
     [ai |-> 5, paid |-> 0, st |-> "Rejected", dc |-> NULL, sd |-> Num(Today - 100)],
     [ai |-> 5, paid |-> 2, st |-> "Pending",  dc |-> NULL, sd |-> Num(Today - 10)],
     [ai |-> 4, paid |-> 0, st |-> "Rejected", dc |-> "D1", sd |-> Num(Today - 40)]}

AggSourceRows ==
    {[ActivityIns |-> Num(k.ai), actRemitInsShare |-> Num(k.paid),
      ActivityStatus |-> k.st, DenialCode |-> k.dc, SubmissionDate |-> k.sd,
      Insurance |-> p] : k \in AggKinds, p \in {"A", "B", NULL}}

AggTables ==
    TablesOf({"ActivityIns", "actRemitInsShare", "ActivityStatus", "DenialCode",
              "SubmissionDate", "Insurance"}, AggSourceRows, MaxAggRows)

\* Rows with any subset of the four payer columns, each holding "A" or "B";
\* in the padded variant the column names carry surrounding blanks.
PayerColumnName(c, padded) ==
    IF ~padded THEN c
    ELSE CASE c = "Insurance" -> " Insurance"
           [] c = "PayerName" -> "PayerName "
           [] c = "Plan"      -> " Plan "
           [] OTHER           -> c

PayerSourceRows(S, padded) ==
    {[c \in {"ActivityIns"} \cup {PayerColumnName(x, padded) : x \in S} |->
         IF c = "ActivityIns" THEN Num(3)
         ELSE f[CHOOSE x \in S : PayerColumnName(x, padded) = c]] :
       f \in [S -> {"A", "B"}]}

PayerTables ==
    UNION {TablesOf({"ActivityIns"} \cup {PayerColumnName(x, padded) : x \in S},
                    PayerSourceRows(S, padded), MaxPayerRows) :
             S \in SUBSET {payer_cols[i] : i \in 1..Len(payer_cols)},
             padded \in BOOLEAN}

----------------------------------------------------------------------------
(* main                                                                    *)

InitWith(tables, dests) ==
    /\ pc = "parse_args"
    /\ source \in tables
    /\ dest \in dests
    /\ df = NoTable
    /\ balance_df = NoTable
    /\ pivot_summary = <<>>
    /\ insurance_totals = <<>>
    /\ book = <<>>
    /\ error = "none"

\* Rows whose numeric cells are numbers, numeric text, other text or blank,
\* in tables that have none, some or all of the six numeric columns.  With
\* all six present the cells are a number or a non-numeric text.
NumericCells == {Num(3), Num(0 - 2), Text("abc"), Text("7"), Blank}
FewNumericCells == {Num(3), Text("abc")}

NumericColumnSets ==
    {{}, {"ActivityIns"}, {"ActivityIns", "actRemitInsShare"},
     {"actResub2RemitInsShare", "TKBKAmountAct"},
     {num_cols[i] : i \in 1..Len(num_cols)}}

NumericSourceRows(S) ==
    {f @@ [ActivityStatus |-> "Pending", DenialCode |-> NULL, Insurance |-> "A",
           SubmissionDate |-> Num(Today - 10)] :
       f \in [S -> IF Cardinality(S) = Len(num_cols) THEN FewNumericCells
                   ELSE NumericCells]}

NumericTables ==
    UNION {TablesOf(S \cup {"ActivityStatus", "DenialCode", "Insurance", "SubmissionDate"},
                    NumericSourceRows(S), MaxNumericRows) : S \in NumericColumnSets}

Init == InitWith(MeasureTables \cup AgingTables \cup AggTables \cup PayerTables
                    \cup NumericTables,
                 {NoFile, OldReport})

\* The process ends: its memory is gone, the files stay.
Exit(e) ==
    /\ pc' = "exit"
    /\ error' = e
    /\ df' = NoTable
    /\ balance_df' = NoTable
    /\ pivot_summary' = <<>>
    /\ insurance_totals' = <<>>
    /\ book' = <<>>
    /\ UNCHANGED source

Step(next) ==
    /\ pc' = next
    /\ UNCHANGED <<source, error>>

\* parse_args: the input must exist and be named .xlsx; the output directory
\* is created.
ParseArgs ==
    /\ pc = "parse_args"
    /\ \E exists \in BOOLEAN, xlsx \in BOOLEAN, mkdir \in BOOLEAN :
         IF ~exists THEN Exit("FileNotFoundError")
         ELSE IF ~xlsx THEN Exit("ValueError")
         ELSE IF ~mkdir THEN Exit("OSError")
         ELSE Step("load_data")
              /\ UNCHANGED <<df, balance_df, pivot_summary, insurance_totals, book>>
    /\ UNCHANGED dest

\* sha1_short(input_file) and load_data: reading the source may fail.
LoadData ==
    /\ pc = "load_data"
    /\ \/ /\ Step("ensure_numeric")
          /\ df' = load_data(source)
          /\ UNCHANGED <<balance_df, pivot_summary, insurance_totals, book>>
       \/ Exit("ReadError")
    /\ UNCHANGED dest

\* Mutant: to_numeric without errors="coerce" raises on a text it cannot parse.
EnsureNumeric_raising ==
    /\ pc = "ensure_numeric"
    /\ IF \E i \in 1..Len(df.rows) : \E j \in 1..Len(num_cols) :
            /\ num_cols[j] \in DOMAIN df.rows[i]
            /\ df.rows[i][num_cols[j]].k = "text"
            /\ IsNull(to_numeric(df.rows[i][num_cols[j]]))
       THEN /\ Exit("ValueError: Unable to parse string")
            /\ UNCHANGED dest
       ELSE /\ Step("compute_measures")
            /\ df' = ensure_numeric(df)
            /\ UNCHANGED <<balance_df, pivot_summary, insurance_totals, book, dest>>

EnsureNumeric ==
    /\ pc = "ensure_numeric"
    /\ Step("compute_measures")
    /\ df' = ensure_numeric(df)
    /\ UNCHANGED <<balance_df, pivot_summary, insurance_totals, book, dest>>

\* A column the statement reads must exist, or pandas raises KeyError.
ComputeMeasures ==
    /\ pc = "compute_measures"
    /\ IF {RemitCols[i] : i \in 1..Len(RemitCols)} \cup {"ActivityIns"} \subseteq df.columns
       THEN /\ Step("add_aging")
            /\ df' = compute_measures(df)
            /\ UNCHANGED <<balance_df, pivot_summary, insurance_totals, book>>
       ELSE Exit("KeyError")
    /\ UNCHANGED dest

AddAging ==
    /\ pc = "add_aging"
    /\ Step("ensure_insurance_column")
    /\ df' = add_aging(df, Today)
    /\ UNCHANGED <<balance_df, pivot_summary, insurance_totals, book, dest>>

EnsureInsuranceColumn ==
    /\ pc = "ensure_insurance_column"
    /\ Step("aggregate")
    /\ df' = ensure_insurance_column(df)
    /\ UNCHANGED <<balance_df, pivot_summary, insurance_totals, book, dest>>

\* balance_df, pivot_summary and insurance_totals (lines 193-195).
Aggregate ==
    /\ pc = "aggregate"
    /\ IF {"Balance", "Insurance", "AgingBucket", "ActivityIns", "Paid",
           "Rejection", "Accepted"} \subseteq df.columns
       THEN /\ Step("open_writer")
            /\ balance_df' = balance_filter(df)
            /\ \E index \in PivotIndexes(balance_filter(df)) :
                 pivot_summary' = build_balance_aging_summary(balance_filter(df), index)
            /\ insurance_totals' = build_insurance_totals(df)
            /\ UNCHANGED <<df, book>>
       ELSE Exit("KeyError")
    /\ UNCHANGED dest

\* pd.ExcelWriter(out_file): opens the destination for writing, which
\* empties an existing file; an unwritable destination raises before that.
OpenWriter ==
    /\ pc = "open_writer"
    /\ \/ /\ Step("to_excel")
          /\ dest' = Truncated
          /\ UNCHANGED <<df, balance_df, pivot_summary, insurance_totals, book>>
       \/ /\ Exit("OSError")
          /\ UNCHANGED dest

\* Leaving the with block on an exception still closes the writer, which
\* saves the sheets written so far when the save itself succeeds.
AbortWriter(e) ==
    /\ Exit(e)
    /\ \/ dest' = (IF book = <<>> THEN Truncated ELSE Saved(book, FALSE))
       \/ dest' = Truncated

\* One to_excel call of the with block (the Meta sheet also hashes the
\* input again): the sheet is added to the workbook in memory.
ToExcel ==
    /\ pc = "to_excel"
    /\ Len(book) < Len(SheetOrder)
    /\ \/ /\ Step(IF Len(book) + 1 = Len(SheetOrder) THEN "close_writer" ELSE "to_excel")
          /\ book' = Append(book, SheetOrder[Len(book) + 1])
          /\ UNCHANGED <<df, balance_df, pivot_summary, insurance_totals, dest>>
       \/ AbortWriter("WriteError")

\* End of the with block: the workbook is saved to the destination.
CloseWriter ==
    /\ pc = "close_writer"
    /\ \/ /\ Step("apply_styling")
          /\ dest' = Saved(book, FALSE)
          /\ UNCHANGED <<df, balance_df, pivot_summary, insurance_totals, book>>
       \/ /\ Exit("WriteError")
          /\ dest' = Truncated

\* apply_styling: reloads the written workbook, styles it and saves it again.
ApplyStyling ==
    /\ pc = "apply_styling"
    /\ \/ /\ Exit("none")
          /\ dest' = Saved(dest.sheets, TRUE)
       \/ /\ Exit("StyleLoadError")
          /\ UNCHANGED dest
       \/ /\ Exit("StyleSaveError")
          /\ dest' = Truncated

Next ==
    \/ ParseArgs
    \/ LoadData
    \/ EnsureNumeric
    \/ ComputeMeasures
    \/ AddAging
    \/ EnsureInsuranceColumn
    \/ Aggregate
    \/ OpenWriter
    \/ ToExcel
    \/ CloseWriter
    \/ ApplyStyling

Spec == Init /\ [][Next]_vars

SpecMeasures == InitWith(MeasureTables, {NoFile}) /\ [][Next]_vars
SpecAging    == InitWith(AgingTables, {NoFile}) /\ [][Next]_vars
SpecAgg      == InitWith(AggTables, {NoFile}) /\ [][Next]_vars
SpecPayer    == InitWith(PayerTables, {NoFile}) /\ [][Next]_vars
SpecNumeric  == InitWith(NumericTables, {NoFile}) /\ [][Next]_vars

----------------------------------------------------------------------------
(* Where the run is                                                        *)

AfterAggregate == pc \in {"open_writer", "to_excel", "close_writer", "apply_styling"}
AfterInsurance == pc = "aggregate" \/ AfterAggregate
AfterAging     == pc = "ensure_insurance_column" \/ AfterInsurance
AfterMeasures  == pc = "add_aging" \/ AfterAging

Rows(t) == {t.rows[i] : i \in 1..Len(t.rows)}

NonZeroCount(r) == Cardinality({c \in {"Rejection", "Accepted", "Balance"} : r[c] # 0})

\* The row is a recognised denial: status "rejected" in any case, with a denial code.
IsDenied(r) ==
    r["ActivityStatus"] \in {"rejected", "Rejected", "REJECTED"} /\ r["DenialCode"] # NULL

----------------------------------------------------------------------------
(* Properties of compute_measures                                          *)

\* C1: after compute_measures every row has at most one of Rejection,
\* Accepted, Balance non-zero, and where both classification columns are
\* present a row with Paid > 0 has Accepted = ActivityIns - Paid, unclamped.
C1_AtMostOneAndAccepted ==
    AfterMeasures =>
        \A r \in Rows(df) :
            /\ NonZeroCount(r) <= 1
            /\ (HasClassification(df.columns) /\ r["Paid"] > 0)
                  => r["Accepted"] = r["ActivityIns"] - r["Paid"]

\* An overpaid row (Paid 5 of 3) keeps its negative Accepted.
C1_Witness ==
    /\ AfterMeasures
    /\ HasClassification(df.columns)
    /\ \E r \in Rows(df) :
          r["Paid"] = 5 /\ r["ActivityIns"] = 3 /\ r["Accepted"] = 0 - 2

\* C2 as stated: after compute_measures every row has exactly one of
\* Rejection, Accepted, Balance non-zero.
C2_ExactlyOneNonZero ==
    AfterMeasures => \A r \in Rows(df) : NonZeroCount(r) = 1

\* C2 amended: exactly one of the three is non-zero when both classification
\* columns are present and either Paid > 0 with ActivityIns different from
\* Paid, or Paid = 0 with ActivityIns non-zero; in every other case all
\* three are 0.
C2_ExactlyOneOrNone ==
    AfterMeasures =>
        \A r \in Rows(df) :
            NonZeroCount(r) =
                IF /\ HasClassification(df.columns)
                   /\ \/ r["Paid"] > 0 /\ r["ActivityIns"] # r["Paid"]
                      \/ r["Paid"] = 0 /\ r["ActivityIns"] # 0
                THEN 1 ELSE 0

\* A fully paid row (Paid 3 of 3) of a classified table has all three at 0.
C2_Witness ==
    /\ AfterMeasures
    /\ HasClassification(df.columns)
    /\ \E r \in Rows(df) :
          r["Paid"] = 3 /\ r["ActivityIns"] = 3 /\ NonZeroCount(r) = 0

\* The two identities of C3 on one row.
C3_RowIdentities(r) ==
    /\ r["Paid"] = 0 =>
          /\ r["Rejection"] + r["Balance"] = r["ActivityIns"]
          /\ r["Rejection"] = 0 \/ r["Balance"] = 0
          /\ IF IsDenied(r) THEN r["Rejection"] = r["ActivityIns"]
                            ELSE r["Balance"] = r["ActivityIns"]
    /\ r["Paid"] > 0 => r["Paid"] + r["Accepted"] = r["ActivityIns"]

\* C3 as stated: the identities hold for the rows of every input table.  A
\* table without a status or denial column has no such cell to look at, so
\* there the row counts as not denied.
C3_IdentitiesEveryTable ==
    AfterMeasures =>
        \A r \in Rows(df) :
            IF HasClassification(df.columns) THEN C3_RowIdentities(r)
            ELSE /\ r["Paid"] = 0 =>
                      /\ r["Rejection"] + r["Balance"] = r["ActivityIns"]
                      /\ r["Balance"] = r["ActivityIns"]
                 /\ r["Paid"] > 0 => r["Paid"] + r["Accepted"] = r["ActivityIns"]

\* C3 amended: the identities hold for the rows of every table that has both
\* the ActivityStatus and the DenialCode column.
C3_IdentitiesWhenClassified ==
    (AfterMeasures /\ HasClassification(df.columns)) =>
        \A r \in Rows(df) : C3_RowIdentities(r)

\* A row paid 3 and taken back 3 (Paid = 0), status "Rejected" with a denial
\* code: Rejection = ActivityIns = 3.
C3_Witness ==
    /\ AfterMeasures
    /\ HasClassification(df.columns)
    /\ \E r \in Rows(df) :
          /\ r["actRemitInsShare"] = 3 /\ r["Paid"] = 0
          /\ r["ActivityStatus"] = "Rejected" /\ r["DenialCode"] = "D1"
          /\ r["ActivityIns"] = 3 /\ r["Rejection"] = 3 /\ r["Balance"] = 0

\* The source lacks ActivityStatus, DenialCode or both.
SourceLacksClassification ==
    ~HasClassification({Strip(c) : c \in source.columns})

\* C4: when ActivityStatus or DenialCode is absent from the source, every row
\* has Rejection = Accepted = Balance = 0 after compute_measures, Balance
\* Aging Detail is empty, and the run never ends on a missing column.
C4_NoClassificationColumns ==
    SourceLacksClassification =>
        /\ AfterMeasures =>
              \A r \in Rows(df) :
                  r["Rejection"] = 0 /\ r["Accepted"] = 0 /\ r["Balance"] = 0
        /\ AfterAggregate => balance_df.rows = <<>>
        /\ error # "KeyError"

\* A table with ActivityStatus but no DenialCode: an unpaid "Rejected" row
\* of 3 is left unclassified and the detail table is empty.
C4_Witness ==
    /\ AfterAggregate
    /\ "ActivityStatus" \in df.columns /\ "DenialCode" \notin df.columns
    /\ balance_df.rows = <<>>
    /\ \E r \in Rows(df) :
          /\ r["ActivityStatus"] = "Rejected" /\ r["ActivityIns"] = 3 /\ r["Paid"] = 0
          /\ NonZeroCount(r) = 0

----------------------------------------------------------------------------
(* Properties of add_aging and of the two summaries                        *)

\* The bucket a whole number of days belongs to, edge by edge.
BucketOfDays(d) ==
    IF d >= 0 /\ d <= 30 THEN "0-30 Days"
    ELSE IF d >= 31 /\ d <= 45 THEN "31-45 Days"
    ELSE IF d >= 46 /\ d <= 60 THEN "46-60 Days"
    ELSE IF d >= 61 /\ d <= 90 THEN "61-90 Days"
    ELSE IF d >= 91 THEN ">90 Days"
    ELSE NULL

\* C5: add_aging gives DaysDiff 0..30 the bucket "0-30 Days", 31..45
\* "31-45 Days", 46..60 "46-60 Days", 61..90 "61-90 Days" and 91 or more
\* ">90 Days"; a row without DaysDiff gets no bucket and adds to no cell of
\* Balance Aging Summary.
C5_BucketEdges ==
    /\ AfterAging =>
          \A r \in Rows(df) :
              /\ IsNull(r["DaysDiff"]) => r["AgingBucket"] = NULL
              /\ (~IsNull(r["DaysDiff"]) /\ r["DaysDiff"][1] >= 0)
                    => r["AgingBucket"] = BucketOfDays(r["DaysDiff"][1])
    /\ AfterAggregate =>
          \A i \in 1..Len(pivot_summary) - 1 : \A l \in LabelSet :
              pivot_summary[i][l] =
                  SumSeq([j \in 1..Len(balance_df.rows) |->
                      LET r == balance_df.rows[j]
                      IN  IF /\ ~IsNull(r["DaysDiff"])
                             /\ r["Insurance"] = pivot_summary[i]["Insurance"]
                             /\ BucketOfDays(r["DaysDiff"][1]) = l
                          THEN r["Balance"] ELSE 0])

\* Two balances of 3, one aged exactly 90 days and one without any date: the
\* first is summed under "61-90 Days", the second under no bucket.
C5_Witness ==
    /\ AfterAggregate
    /\ \E r \in Rows(balance_df) :
          r["DaysDiff"] = Some(90) /\ r["AgingBucket"] = "61-90 Days"
    /\ \E r \in Rows(balance_df) :
          IsNull(r["DaysDiff"]) /\ r["AgingBucket"] = NULL /\ r["Balance"] = 3
    /\ Len(pivot_summary) = 2
    /\ pivot_summary[1]["61-90 Days"] = 3
    /\ pivot_summary[1]["Grand Total"] = 3

\* C6 as stated: every row whose DaysDiff is 0 or negative gets the bucket
\* "0-30 Days".
C6_NonPositiveInFirstBucket ==
    AfterAging =>
        \A r \in Rows(df) :
            (~IsNull(r["DaysDiff"]) /\ r["DaysDiff"][1] <= 0)
                => r["AgingBucket"] = "0-30 Days"

\* C6 amended: a row whose DaysDiff is exactly 0 gets the bucket "0-30 Days";
\* a row whose DaysDiff is negative gets no bucket.
C6_ZeroInFirstBucketNegativeInNone ==
    AfterAging =>
        \A r \in Rows(df) :
            /\ r["DaysDiff"] = Some(0) => r["AgingBucket"] = "0-30 Days"
            /\ (~IsNull(r["DaysDiff"]) /\ r["DaysDiff"][1] < 0)
                  => r["AgingBucket"] = NULL

\* A row dated tomorrow (DaysDiff -1) has no bucket.
C6_Witness ==
    /\ AfterAging
    /\ \E r \in Rows(df) : r["DaysDiff"] = Some(0 - 1) /\ r["AgingBucket"] = NULL

\* Each payer row's Grand Total is the sum of its five bucket cells, and the
\* Grand Total row is the column-wise sum over the payer rows.
SummaryTotalsAddUp ==
    LET n == Len(pivot_summary)
    IN  /\ n >= 1
        /\ pivot_summary[n]["Insurance"] = "Grand Total"
        /\ \A i \in 1..n - 1 :
              pivot_summary[i]["Grand Total"] =
                  SumSeq([k \in 1..Len(labels) |-> pivot_summary[i][labels[k]]])
        /\ \A c \in LabelSet \cup {"Grand Total"} :
              pivot_summary[n][c] = SumSeq([i \in 1..n - 1 |-> pivot_summary[i][c]])

\* C7 as stated: the Grand Total cell of the Grand Total row is the sum of
\* Balance over every row of Balance Aging Detail, and the totals add up.
C7_GrandTotalIsAllBalances ==
    AfterAggregate =>
        /\ SummaryTotalsAddUp
        /\ pivot_summary[Len(pivot_summary)]["Grand Total"] =
              SumSeq([j \in 1..Len(balance_df.rows) |-> balance_df.rows[j]["Balance"]])

\* C7 amended: the Grand Total cell of the Grand Total row is the sum of
\* Balance over the rows of Balance Aging Detail that have an aging bucket
\* and a payer, and the totals add up.
C7_GrandTotalIsBucketedBalances ==
    AfterAggregate =>
        /\ SummaryTotalsAddUp
        /\ pivot_summary[Len(pivot_summary)]["Grand Total"] =
              SumSeq([j \in 1..Len(balance_df.rows) |->
                  IF /\ balance_df.rows[j]["AgingBucket"] # NULL
                     /\ balance_df.rows[j]["Insurance"] # NULL
                  THEN balance_df.rows[j]["Balance"] ELSE 0])

\* Two balances of payer A, 3 without a date and 5 aged 100 days: the detail
\* holds 8, the summary's Grand Total 5.
C7_Witness ==
    /\ AfterAggregate
    /\ Len(balance_df.rows) = 2
    /\ \E r \in Rows(balance_df) :
          r["Insurance"] = "A" /\ r["Balance"] = 3 /\ r["AgingBucket"] = NULL
    /\ \E r \in Rows(balance_df) :
          r["Insurance"] = "A" /\ r["Balance"] = 5 /\ r["AgingBucket"] = ">90 Days"
    /\ pivot_summary[Len(pivot_summary)]["Grand Total"] = 5

\* The sum of column c over the rows of df whose payer is in P.
SumOverPayers(c, P) ==
    SumSeq([j \in 1..Len(df.rows) |->
        IF df.rows[j]["Insurance"] \in P THEN df.rows[j][c] ELSE 0])

DistinctPayers == {df.rows[j]["Insurance"] : j \in 1..Len(df.rows)}

\* C8: Insurance Totals has one row per distinct payer, the missing payer
\* included, then one "Grand Total" row, last; a payer row holds the sums of
\* ActivityIns, Paid, Balance, Rejection and Accepted over the payer's rows,
\* and the Grand Total row the sums over all rows.
C8_InsuranceTotals ==
    AfterAggregate =>
        LET n == Len(insurance_totals)
        IN  /\ n = Cardinality(DistinctPayers) + 1
            /\ {insurance_totals[i].Insurance : i \in 1..n - 1} = DistinctPayers
            /\ insurance_totals[n].Insurance = "Grand Total"
            /\ \A i \in 1..n - 1 :
                  LET P == {insurance_totals[i].Insurance}
                  IN  /\ insurance_totals[i].NetAmount = SumOverPayers("ActivityIns", P)
                      /\ insurance_totals[i].Paid = SumOverPayers("Paid", P)
                      /\ insurance_totals[i].Balance = SumOverPayers("Balance", P)
                      /\ insurance_totals[i].Rejected = SumOverPayers("Rejection", P)
                      /\ insurance_totals[i].Accepted = SumOverPayers("Accepted", P)
            /\ insurance_totals[n].NetAmount = SumOverPayers("ActivityIns", DistinctPayers)
            /\ insurance_totals[n].Paid = SumOverPayers("Paid", DistinctPayers)
            /\ insurance_totals[n].Balance = SumOverPayers("Balance", DistinctPayers)
            /\ insurance_totals[n].Rejected = SumOverPayers("Rejection", DistinctPayers)
            /\ insurance_totals[n].Accepted = SumOverPayers("Accepted", DistinctPayers)

\* Payer A paid 2 of 5 and a rejected 4 without payer: rows A, missing payer
\* and Grand Total, with Net Amount 9, Paid 2, Rejected 4, Accepted 3.
C8_Witness ==
    /\ AfterAggregate
    /\ Len(insurance_totals) = 3
    /\ insurance_totals[1].Insurance = "A" /\ insurance_totals[1].Paid = 2
    /\ insurance_totals[2].Insurance = NULL /\ insurance_totals[2].Rejected = 4
    /\ insurance_totals[3] =
          [Insurance |-> "Grand Total", NetAmount |-> 9, Paid |-> 2,
           Balance |-> 0, Rejected |-> 4, Accepted |-> 3]

----------------------------------------------------------------------------
(* Properties of ensure_insurance_column and of a whole run                *)

ReportTables == {"Insurance_Totals", "Balance_Aging_Summary", "Balance_Aging_Detail"}

SheetsOf(file) == {file.sheets[i] : i \in 1..Len(file.sheets)}

\* C9: a run is all-or-nothing towards the destination: when it has
\* succeeded the destination holds all three tables, and when it has failed
\* the destination holds no workbook written by this run, partial or
\* complete.
C9_AllOrNothing ==
    pc = "exit" =>
        IF error = "none"
        THEN dest.state = "new" /\ ReportTables \subseteq SheetsOf(dest)
        ELSE ~(dest.state = "new" /\ dest.sheets # <<>>)

\* The payer of a source row by priority Insurance, PayerName, Insurer, Plan.
PayerByPriority(r) ==
    IF "Insurance" \in DOMAIN r THEN r["Insurance"]
    ELSE IF "PayerName" \in DOMAIN r THEN r["PayerName"]
    ELSE IF "Insurer" \in DOMAIN r THEN r["Insurer"]
    ELSE IF "Plan" \in DOMAIN r THEN r["Plan"]
    ELSE "Not Available"

\* C10: after ensure_insurance_column the Insurance of every row is the
\* row's value in the first present column among Insurance, PayerName,
\* Insurer, Plan, and "Not Available" when none of them is present.
C10_PayerPriority ==
    AfterInsurance =>
        /\ Len(df.rows) = Len(source.rows)
        /\ \A i \in 1..Len(df.rows) :
              df.rows[i]["Insurance"] = PayerByPriority(load_data(source).rows[i])

\* A table with PayerName, Insurer and Plan but no Insurance column: a row
\* with PayerName "B" and Insurer "A" gets Insurance "B".
C10_Witness ==
    /\ AfterInsurance
    /\ {Strip(c) : c \in source.columns} \cap {"Insurance", "PayerName", "Insurer", "Plan"}
          = {"PayerName", "Insurer", "Plan"}
    /\ \E r \in Rows(df) :
          r["PayerName"] = "B" /\ r["Insurer"] = "A" /\ r["Insurance"] = "B"

----------------------------------------------------------------------------
(* Properties of ensure_numeric                                            *)

AfterNumeric == pc = "compute_measures" \/ AfterMeasures

\* The errors a run can end on because of what the cells hold, as opposed to
\* the failures of arguments and files.
DataErrors == {"KeyError", "TypeError", "ValueError: Unable to parse string"}

\* What the claim says a numeric cell of the source becomes: a number keeps
\* its value, a blank and the non-numeric text "abc" become 0.  The claim
\* does not say what a numeric text becomes.
CellAsClaimed(cell, v) ==
    CASE cell.k = "num"   -> v = cell.n
      [] cell.k = "blank" -> v = 0
      [] cell.k = "text" /\ cell.s = "abc" -> v = 0
      [] OTHER -> TRUE

\* C11: ensure_numeric never ends the run on bad data and leaves the six
\* numeric columns present and numeric: an absent column is 0 in every row,
\* a non-numeric text or a blank cell becomes 0, a number keeps its value.
C11_EnsureNumeric ==
    /\ error \notin DataErrors
    /\ AfterNumeric =>
          /\ \A j \in 1..Len(num_cols) : num_cols[j] \in df.columns
          /\ Len(df.rows) = Len(source.rows)
          /\ \A i \in 1..Len(df.rows) : \A j \in 1..Len(num_cols) :
                LET c   == num_cols[j]
                    src == load_data(source).rows[i]
                IN  /\ c \in DOMAIN df.rows[i]
                    /\ df.rows[i][c] \in Int
                    /\ IF c \in DOMAIN src
                       THEN CellAsClaimed(src[c], df.rows[i][c])
                       ELSE df.rows[i][c] = 0

\* A table with only ActivityIns and actRemitInsShare: a row with the text
\* "abc" as ActivityIns and 3 as actRemitInsShare ends with ActivityIns 0,
\* actRemitInsShare 3 and the absent TKBKAmountAct 0, and the run goes on.
C11_Witness ==
    /\ pc = "add_aging"
    /\ source.columns \cap {num_cols[j] : j \in 1..Len(num_cols)}
          = {"ActivityIns", "actRemitInsShare"}
    /\ \E i \in 1..Len(df.rows) :
          /\ source.rows[i]["ActivityIns"] = Text("abc")
          /\ source.rows[i]["actRemitInsShare"] = Num(3)
          /\ df.rows[i]["ActivityIns"] = 0
          /\ df.rows[i]["actRemitInsShare"] = 3
          /\ df.rows[i]["TKBKAmountAct"] = 0

====
